---- MODULE Spec2Model ----
(***************************************************************************)
(* Model of readmark's Tauri backend (src-tauri/src/lib.rs): the directory *)
(* watch commands watch_directory / unwatch_directory with the debouncer   *)
(* thread that runs their delivery callback, the listing commands          *)
(* list_dir / list_md_files, and the text commands read_text_file /        *)
(* write_text_file.                                                        *)
(***************************************************************************)
EXTENDS Integers, Sequences, FiniteSets, TLC

\* ------------------------------------------------------------------ bounds
NumCallers == 2       \* concurrent invokers of the two watch commands
MaxSessions == 2      \* debouncers created over a run
MaxRaw == 2           \* reports (raw events, errors) of the OS watches over a run

\* --------------------------------------------------------------- constants
None == "None"        \* Option::None of watched_path
NoWatcher == 0        \* Option::None of watcher; a debouncer is named 1, 2, ...

Callers == 1..NumCallers

\* The paths handed to watch_directory: two directories, a regular file and
\* a path that does not exist.
WatchArgs == {"/d1", "/d2", "/d1/a.md", "/missing"}

\* PathBuf::exists and PathBuf::is_dir of line 186 on that file system.
PathExists(path) == path # "/missing"
PathIsDir(path) == path \in {"/d1", "/d2"}

\* ValidDir checking only that the path exists.
ValidDir_ExistsOnly(path) == PathExists(path)

\* line 186: the negation of `!path_buf.exists() || !path_buf.is_dir()`
ValidDir(path) == PathExists(path) /\ PathIsDir(path)

\* The files whose changes the recursive OS watch rooted at root reports.
\* The name of the file under /d2 is the single byte 0xFF followed by ".md":
\* a file name need not be UTF-8.
FilesUnder(root) ==
  IF root = "/d1" THEN {"/d1/a.md", "/d1/b.md"}
  ELSE IF root = "/d2" THEN {"/d2/<FF>.md"}
  ELSE {}

\* The bytes of the PathBuf of file f.
OsPath(f) ==
  CASE f = "/d1/a.md" -> <<47, 100, 49, 47, 97, 46, 109, 100>>
    [] f = "/d1/b.md" -> <<47, 100, 49, 47, 98, 46, 109, 100>>
    [] f = "/d2/<FF>.md" -> <<47, 100, 50, 47, 255, 46, 109, 100>>

AllFiles == FilesUnder("/d1") \cup FilesUnder("/d2")

VARIABLES
  slot,      \* WatcherState: [watcher, watched_path]
  lock,      \* the Mutex around it: 0 free, else the caller holding the guard
  pc,        \* pc[c]: where caller c is in its command
  arg,       \* arg[c]: the path argument of c's watch_directory
  deb,       \* deb[c]: the local `debouncer` of c's watch_directory
  pre,       \* pre[c]: the slot c found when it took the lock
  res,       \* res[c]: the Result c's command is about to return
  sess,      \* the debouncers created so far, by id
  sink,      \* the emits on "file-change", in order
  nraw,      \* reports (raw events, errors) of the OS watches so far
  stderr,    \* the number of "Watch error" lines printed
  tree,      \* the entries under the listed directory (indices of Universe)
  rd,        \* the order in which read_dir yields the children of a directory
  dir_out,   \* the Result of list_dir on the directory
  md_out,    \* the Result of list_md_files on the directory
  disk,      \* the files and directories the text commands work on
  written,   \* per path, the text of the write_text_file that last succeeded
  rd_out     \* the Result of the last read_text_file

\* the state of the watch commands, of the listing commands and of the
\* text commands
wvars == <<slot, lock, pc, arg, deb, pre, res, sess, sink, nraw, stderr>>
lsvars == <<tree, rd, dir_out, md_out>>
iovars == <<disk, written, rd_out>>
fsvars == <<lsvars, iovars>>
vars == <<wvars, fsvars>>

\* WatcherState { watcher: None, watched_path: None } (run, lines 239-242)
IdleSlot == [watcher |-> NoWatcher, watched_path |-> None]

NoEvents == [f \in AllFiles |-> 0]

\* A debouncer as new_debouncer returns it: its thread runs, nothing is
\* registered with the OS yet, nothing is buffered.
\*   buf     raw events per path waiting for their window to close
\*   batch   the events of the callback invocation in progress
\*   win     number of batches handed to the callback
\*   cur     the paths of the batch handed over last
\*   handed  the same paths in the order the batch listed them
\*   by      the command that dropped the handle ("none" while it is owned)
\*   dropper the caller whose command dropped it and has not returned yet
\*   ret     the command that dropped it has returned
NewDebouncer(root) ==
  [root |-> root, registered |-> FALSE, stopped |-> FALSE,
   buf |-> NoEvents, batch |-> <<>>, win |-> 0, cur |-> {}, handed |-> <<>>,
   by |-> "none", dropper |-> 0, ret |-> FALSE]

\* Nothing was listed yet.
NotListed == [done |-> FALSE, entries |-> <<>>]

\* The paths the text commands are called with, as their components, and
\* the nodes of the disk: these paths and the directories above them.
IoPaths == { <<"n", "a.md">>, <<"n", "sub", "b.md">>, <<"n", "sub">> }
IoNodes == IoPaths \cup { <<"n">> }

Absent == [kind |-> "absent", bytes |-> <<>>]
Dir == [kind |-> "dir", bytes |-> <<>>]
File(bytes) == [kind |-> "file", bytes |-> bytes]

\* No text command was called yet.
NoWrite == [ok |-> FALSE, text |-> <<>>, made |-> {}]
NotWritten == [p \in IoPaths |-> NoWrite]
NotRead == [path |-> <<>>, res |-> "none", text |-> <<>>, wrote |-> NoWrite]

IoIdle ==
  /\ disk = [n \in IoNodes |-> Absent]
  /\ written = NotWritten
  /\ rd_out = NotRead

WatchInit ==
  /\ slot = IdleSlot
  /\ lock = 0
  /\ pc = [c \in Callers |-> "idle"]
  /\ arg = [c \in Callers |-> None]
  /\ deb = [c \in Callers |-> NoWatcher]
  /\ pre = [c \in Callers |-> IdleSlot]
  /\ res = [c \in Callers |-> "none"]
  /\ sess = <<>>
  /\ sink = <<>>
  /\ nraw = 0
  /\ stderr = 0

Init ==
  /\ WatchInit
  /\ tree = {} /\ rd = "fwd"
  /\ dir_out = NotListed /\ md_out = NotListed
  /\ IoIdle

\* ------------------------------------------------------ the session slot

\* Dropping the Debouncer the Option held (assigning None, lines 182 and 229,
\* or the local going out of scope on the `?` of line 217): the handle is
\* gone and the debouncer's thread is told to stop, so it hands over no
\* further batch and what it buffered is discarded. The drop does not wait
\* for that thread: a callback invocation in progress keeps its batch.
DropDebouncer(ss, id, op, c) ==
  IF id = NoWatcher THEN ss
  ELSE [ss EXCEPT ![id].stopped = TRUE, ![id].buf = NoEvents,
                  ![id].by = op, ![id].dropper = c]

\* The debouncers whose dropping command was c's, once c has returned.
Returned(ss, c) ==
  [i \in DOMAIN ss |->
     IF ss[i].dropper = c THEN [ss[i] EXCEPT !.ret = TRUE, !.dropper = 0]
     ELSE ss[i]]

\* The body of c's command ends with Result r; the guard is still held.
Finish(c, op, r) ==
  /\ pc' = [pc EXCEPT ![c] = op]
  /\ res' = [res EXCEPT ![c] = r]

\* Return keeping the guard: the Mutex stays locked after the call.
Return_KeepsGuard(c) ==
  /\ lock' = lock
  /\ pc' = [pc EXCEPT ![c] = "idle"]
  /\ arg' = [arg EXCEPT ![c] = None]
  /\ deb' = [deb EXCEPT ![c] = NoWatcher]
  /\ pre' = [pre EXCEPT ![c] = IdleSlot]
  /\ res' = [res EXCEPT ![c] = "none"]
  /\ sess' = Returned(sess, c)
  /\ UNCHANGED <<slot, sink, nraw, stderr, fsvars>>

\* The function returns: the MutexGuard goes out of scope and the Result
\* goes to the invoker.
Return(c) ==
  /\ lock' = 0
  /\ pc' = [pc EXCEPT ![c] = "idle"]
  /\ arg' = [arg EXCEPT ![c] = None]
  /\ deb' = [deb EXCEPT ![c] = NoWatcher]
  /\ pre' = [pre EXCEPT ![c] = IdleSlot]
  /\ res' = [res EXCEPT ![c] = "none"]
  /\ sess' = Returned(sess, c)
  /\ UNCHANGED <<slot, sink, nraw, stderr, fsvars>>

\* A watch_directory call not yet past new_debouncer may still create one.
Pending == Cardinality({c \in Callers : pc[c] \in {"w_locked", "w_cleared"}})

\* ------------------------------------------------------- watch_directory

\* WatchLock taking the slot without waiting for the guard to be free.
WatchLock_NoGuard(c, path) ==
  /\ pc[c] = "idle"
  /\ Len(sess) + Pending < MaxSessions
  /\ lock' = c
  /\ pc' = [pc EXCEPT ![c] = "w_locked"]
  /\ arg' = [arg EXCEPT ![c] = path]
  /\ pre' = [pre EXCEPT ![c] = slot]
  /\ UNCHANGED <<slot, deb, res, sess, sink, nraw, stderr, fsvars>>

\* line 179: state.lock()
WatchLock(c, path) ==
  /\ pc[c] = "idle"
  /\ lock = 0
  /\ Len(sess) + Pending < MaxSessions
  /\ lock' = c
  /\ pc' = [pc EXCEPT ![c] = "w_locked"]
  /\ arg' = [arg EXCEPT ![c] = path]
  /\ pre' = [pre EXCEPT ![c] = slot]
  /\ UNCHANGED <<slot, deb, res, sess, sink, nraw, stderr, fsvars>>

\* lines 181-183: stop the existing watcher, whatever the path is
WatchTeardown(c) ==
  /\ pc[c] = "w_locked"
  /\ slot' = IdleSlot
  /\ sess' = DropDebouncer(sess, slot.watcher, "watch", c)
  /\ pc' = [pc EXCEPT ![c] = "w_cleared"]
  /\ UNCHANGED <<lock, arg, deb, pre, res, sink, nraw, stderr, fsvars>>

\* lines 185-188: the path is validated after the teardown
WatchInvalid(c) ==
  /\ pc[c] = "w_cleared"
  /\ ~ValidDir(arg[c])
  /\ Finish(c, "w_ret", "invalid")
  /\ UNCHANGED <<slot, lock, arg, deb, pre, sess, sink, nraw, stderr, fsvars>>

\* lines 192-214: new_debouncer succeeds
WatchNewDebouncer(c) ==
  /\ pc[c] = "w_cleared"
  /\ ValidDir(arg[c])
  /\ sess' = Append(sess, NewDebouncer(arg[c]))
  /\ deb' = [deb EXCEPT ![c] = Len(sess) + 1]
  /\ pc' = [pc EXCEPT ![c] = "w_created"]
  /\ UNCHANGED <<slot, lock, arg, pre, res, sink, nraw, stderr, fsvars>>

\* line 214: new_debouncer fails, `?` returns; nothing was created
WatchNewDebouncerErr(c) ==
  /\ pc[c] = "w_cleared"
  /\ ValidDir(arg[c])
  /\ Finish(c, "w_ret", "watcher_err")
  /\ UNCHANGED <<slot, lock, arg, deb, pre, sess, sink, nraw, stderr, fsvars>>

\* line 216: the recursive OS watch is registered
WatchRegister(c) ==
  /\ pc[c] = "w_created"
  /\ sess' = [sess EXCEPT ![deb[c]].registered = TRUE]
  /\ pc' = [pc EXCEPT ![c] = "w_registered"]
  /\ UNCHANGED <<slot, lock, arg, deb, pre, res, sink, nraw, stderr, fsvars>>

\* WatchRegisterErr had the debouncer been stored in the slot before the
\* OS watch was registered: the failed debouncer stays installed.
WatchRegisterErr_Installed(c) ==
  /\ pc[c] = "w_created"
  /\ slot' = [watcher |-> deb[c], watched_path |-> arg[c]]
  /\ Finish(c, "w_ret", "watcher_err")
  /\ UNCHANGED <<lock, arg, deb, pre, sess, sink, nraw, stderr, fsvars>>

\* line 217: registering fails, `?` returns and the local debouncer is dropped
WatchRegisterErr(c) ==
  /\ pc[c] = "w_created"
  /\ sess' = DropDebouncer(sess, deb[c], "failed", c)
  /\ Finish(c, "w_ret", "watcher_err")
  /\ UNCHANGED <<slot, lock, arg, deb, pre, sink, nraw, stderr, fsvars>>

\* WatchInstall forgetting line 220: the path is not recorded.
WatchInstall_NoPath(c) ==
  /\ pc[c] = "w_registered"
  /\ slot' = [watcher |-> deb[c], watched_path |-> slot.watched_path]
  /\ sess' = DropDebouncer(sess, slot.watcher, "watch", c)
  /\ Finish(c, "w_ret", "ok")
  /\ UNCHANGED <<lock, arg, deb, pre, sink, nraw, stderr, fsvars>>

\* lines 219-222: the session is installed, Ok(()). Assigning the Option
\* drops the value it held.
WatchInstall(c) ==
  /\ pc[c] = "w_registered"
  /\ slot' = [watcher |-> deb[c], watched_path |-> arg[c]]
  /\ sess' = DropDebouncer(sess, slot.watcher, "watch", c)
  /\ Finish(c, "w_ret", "ok")
  /\ UNCHANGED <<lock, arg, deb, pre, sink, nraw, stderr, fsvars>>

\* line 223: watch_directory returns
WatchReturn(c) ==
  /\ pc[c] = "w_ret"
  /\ Return(c)

\* ----------------------------------------------------- unwatch_directory

\* line 228: state.lock()
UnwatchLock(c) ==
  /\ pc[c] = "idle"
  /\ lock = 0
  /\ lock' = c
  /\ pc' = [pc EXCEPT ![c] = "u_locked"]
  /\ pre' = [pre EXCEPT ![c] = slot]
  /\ UNCHANGED <<slot, arg, deb, res, sess, sink, nraw, stderr, fsvars>>

\* UnwatchTeardown forgetting line 229: only the recorded path is cleared.
UnwatchTeardown_KeepsWatcher(c) ==
  /\ pc[c] = "u_locked"
  /\ slot' = [slot EXCEPT !.watched_path = None]
  /\ Finish(c, "u_ret", "ok")
  /\ UNCHANGED <<lock, arg, deb, pre, sess, sink, nraw, stderr, fsvars>>

\* lines 229-231: the slot is cleared, Ok(())
UnwatchTeardown(c) ==
  /\ pc[c] = "u_locked"
  /\ slot' = IdleSlot
  /\ sess' = DropDebouncer(sess, slot.watcher, "unwatch", c)
  /\ Finish(c, "u_ret", "ok")
  /\ UNCHANGED <<lock, arg, deb, pre, sink, nraw, stderr, fsvars>>

\* line 232: unwatch_directory returns
UnwatchReturn(c) ==
  /\ pc[c] = "u_ret"
  /\ Return(c)

\* -------------------------------------------- the debouncer and its callback

\* DebouncedEventKind of notify_debouncer_mini, as matched on lines 196-200.
EventKinds == {"Any", "AnyContinuous", "Other"}

\* KindTag passing the kind of the debounced event on.
KindTag_Verbatim(k) == k

\* lines 196-200: every kind maps to the same tag
KindTag(k) ==
  CASE k = "Any" -> "change"
    [] k = "AnyContinuous" -> "change"
    [] OTHER -> "change"

\* The orders in which a batch can list the paths of S.
Orders(S) ==
  {q \in [1..Cardinality(S) -> S] : \A i, j \in 1..Cardinality(S) : q[i] = q[j] => i = j}

\* The Vec<DebouncedEvent> the debouncer of line 192 hands to the callback
\* when the 500 ms window of the paths listed in q has closed: one event per
\* path, however many raw events the path had (raws counts them). The kind
\* of an event is any of EventKinds; it is drawn where the callback reads it.
DebouncedEvents(buf, q) ==
  [i \in DOMAIN q |-> [path |-> q[i], raws |-> buf[q[i]]]]

\* The OS watch registered on line 216 reports a raw event for file f to
\* debouncer i, which records it under f's path.
RawEvent(i, f) ==
  /\ i \in DOMAIN sess
  /\ sess[i].registered /\ ~sess[i].stopped
  /\ f \in FilesUnder(sess[i].root)
  /\ nraw < MaxRaw
  /\ sess' = [sess EXCEPT ![i].buf[f] = @ + 1]
  /\ nraw' = nraw + 1
  /\ UNCHANGED <<slot, lock, pc, arg, deb, pre, res, sink, stderr, fsvars>>

\* The debounce window of the buffered paths S closes: the debouncer's
\* thread takes them out of the buffer and calls the closure of lines
\* 192-214 with Ok(events).
Tick(i, S) ==
  /\ i \in DOMAIN sess
  /\ ~sess[i].stopped
  /\ sess[i].batch = <<>>
  /\ S # {}
  /\ \A f \in S : sess[i].buf[f] > 0
  /\ \E q \in Orders(S) :
       sess' = [sess EXCEPT
                  ![i].batch = DebouncedEvents(sess[i].buf, q),
                  ![i].buf = [f \in AllFiles |-> IF f \in S THEN 0 ELSE sess[i].buf[f]],
                  ![i].win = @ + 1,
                  ![i].cur = S,
                  ![i].handed = q]
  /\ UNCHANGED <<slot, lock, pc, arg, deb, pre, res, sink, nraw, stderr, fsvars>>

\* CallbackErr ending the session the error came from: its handle is marked
\* stopped, as a drop would.
CallbackErr_Stops(i) ==
  /\ i \in DOMAIN sess
  /\ sess[i].registered /\ ~sess[i].stopped
  /\ sess[i].batch = <<>>
  /\ nraw < MaxRaw
  /\ stderr' = stderr + 1
  /\ nraw' = nraw + 1
  /\ sess' = [sess EXCEPT ![i].stopped = TRUE]
  /\ UNCHANGED <<slot, lock, pc, arg, deb, pre, res, sink, fsvars>>

\* lines 210-212: the OS watch of debouncer i reports an error and the
\* debouncer's thread, not inside another call of the closure, calls it
\* with Err(e), which prints it.
CallbackErr(i) ==
  /\ i \in DOMAIN sess
  /\ sess[i].registered /\ ~sess[i].stopped
  /\ sess[i].batch = <<>>
  /\ nraw < MaxRaw
  /\ stderr' = stderr + 1
  /\ nraw' = nraw + 1
  /\ UNCHANGED <<slot, lock, pc, arg, deb, pre, res, sess, sink, fsvars>>

\* Path::to_string_lossy().to_string() (line 203): the String, as its code
\* points, of a path given as bytes. A byte sequence that is UTF-8 decodes
\* to its code point; a byte that starts none is replaced by U+FFFD.
\* Sequences of one and two bytes are decoded.
RECURSIVE ToStringLossy(_)
ToStringLossy(bytes) ==
  IF bytes = <<>> THEN <<>>
  ELSE LET b == Head(bytes)
           two == /\ b >= 194 /\ b <= 223
                  /\ Len(bytes) >= 2 /\ bytes[2] >= 128 /\ bytes[2] <= 191
       IN IF b < 128 THEN <<b>> \o ToStringLossy(Tail(bytes))
          ELSE IF two
            THEN <<(b - 192) * 64 + (bytes[2] - 128)>>
                 \o ToStringLossy(SubSeq(bytes, 3, Len(bytes)))
          ELSE <<65533>> \o ToStringLossy(Tail(bytes))

\* The path of file f as the FileChangeEvent carries it (line 203).
PathTexts == [f \in AllFiles |-> ToStringLossy(OsPath(f))]
PathText(f) == PathTexts[f]

\* lines 196-205, 207: the FileChangeEvent emitted for the debounced event e,
\* of kind k, of debouncer i. sid and win say which batch it came from.
ChangeEvent(i, e, k) ==
  [path |-> PathText(e.path), kind |-> KindTag(k), sid |-> i, win |-> sess[i].win]

\* Emit pushing the event of one iteration twice.
Emit_Twice(i) ==
  /\ i \in DOMAIN sess
  /\ sess[i].batch # <<>>
  /\ \E k \in EventKinds :
       sink' = sink \o << ChangeEvent(i, Head(sess[i].batch), k),
                          ChangeEvent(i, Head(sess[i].batch), k) >>
  /\ sess' = [sess EXCEPT ![i].batch = Tail(@)]
  /\ UNCHANGED <<slot, lock, pc, arg, deb, pre, res, nraw, stderr, fsvars>>

\* Emit returning after the first event of the batch.
Emit_FirstOnly(i) ==
  /\ i \in DOMAIN sess
  /\ sess[i].batch # <<>>
  /\ \E k \in EventKinds, ok \in BOOLEAN :
       sink' = Append(sink, ChangeEvent(i, Head(sess[i].batch), k))
  /\ sess' = [sess EXCEPT ![i].batch = <<>>]
  /\ UNCHANGED <<slot, lock, pc, arg, deb, pre, res, nraw, stderr, fsvars>>

\* Emit leaving the loop when emit fails, as `?` on line 207 would.
Emit_StopsOnFailure(i) ==
  /\ i \in DOMAIN sess
  /\ sess[i].batch # <<>>
  /\ \E k \in EventKinds, ok \in BOOLEAN :
       /\ sink' = Append(sink, ChangeEvent(i, Head(sess[i].batch), k))
       /\ sess' = [sess EXCEPT ![i].batch = IF ok THEN Tail(@) ELSE <<>>]
  /\ UNCHANGED <<slot, lock, pc, arg, deb, pre, res, nraw, stderr, fsvars>>

\* lines 196-207: what one iteration of `for event in events` can do, for
\* every kind k the event may have and every Result ok emit may return: the
\* FileChangeEvent it emits and the events it leaves to the loop. The
\* Result is discarded by `let _` (line 207), so the loop goes on either way.
Iterations(i) ==
  {[push |-> ChangeEvent(i, Head(sess[i].batch), k), rest |-> Tail(sess[i].batch)] :
     k \in EventKinds, ok \in BOOLEAN}

\* lines 195-208: one iteration of `for event in events`. The closure runs
\* on the debouncer's thread and takes no lock. sink keeps the calls of emit.
Emit(i) ==
  /\ i \in DOMAIN sess
  /\ sess[i].batch # <<>>
  /\ \E it \in Iterations(i) :
       /\ sink' = Append(sink, it.push)
       /\ sess' = [sess EXCEPT ![i].batch = it.rest]
  /\ UNCHANGED <<slot, lock, pc, arg, deb, pre, res, nraw, stderr, fsvars>>

\* --------------------------------------------------------- specification

Next ==
  \/ \E c \in Callers, path \in WatchArgs : WatchLock(c, path)
  \/ \E c \in Callers : WatchTeardown(c)
  \/ \E c \in Callers : WatchInvalid(c)
  \/ \E c \in Callers : WatchNewDebouncer(c)
  \/ \E c \in Callers : WatchNewDebouncerErr(c)
  \/ \E c \in Callers : WatchRegister(c)
  \/ \E c \in Callers : WatchRegisterErr(c)
  \/ \E c \in Callers : WatchInstall(c)
  \/ \E c \in Callers : WatchReturn(c)
  \/ \E c \in Callers : UnwatchLock(c)
  \/ \E c \in Callers : UnwatchTeardown(c)
  \/ \E c \in Callers : UnwatchReturn(c)
  \/ \E i \in 1..MaxSessions, f \in AllFiles : RawEvent(i, f)
  \/ \E i \in 1..MaxSessions, S \in SUBSET AllFiles : Tick(i, S)
  \/ \E i \in 1..MaxSessions : Emit(i)
  \/ \E i \in 1..MaxSessions : CallbackErr(i)

Spec == Init /\ [][Next]_vars

\* The debounce window of file f closes with whatever closes with it.
TickFor(i, f) == \E S \in SUBSET AllFiles : f \in S /\ Tick(i, S)

\* The thread of each debouncer (spawned by new_debouncer, line 192) keeps
\* running: a window that has closed is handed over once the callback is
\* free, and a callback in progress goes on to its next iteration.
DeliveryFairness ==
  \A i \in 1..MaxSessions :
    /\ WF_vars(Emit(i))
    /\ \A f \in AllFiles : WF_vars(TickFor(i, f))

FairDelivery == Spec /\ DeliveryFairness

\* ------------------------------------------------- callers that wait

\* In Spec a command starts when it gets the lock. Here the invocation and
\* the lock are two steps, with the caller blocked in state.lock() between
\* them (lines 179, 228).

\* watch_directory calls blocked in state.lock()
Waiting == Cardinality({c \in Callers : pc[c] = "w_wait"})

\* line 178: watch_directory is invoked and reaches state.lock()
WatchCall(c) ==
  /\ pc[c] = "idle"
  /\ Len(sess) + Pending + Waiting < MaxSessions
  /\ pc' = [pc EXCEPT ![c] = "w_wait"]
  /\ UNCHANGED <<slot, lock, arg, deb, pre, res, sess, sink, nraw, stderr, fsvars>>

\* line 179: state.lock() returns the guard
WatchAcquire(c, path) ==
  /\ pc[c] = "w_wait"
  /\ lock = 0
  /\ lock' = c
  /\ pc' = [pc EXCEPT ![c] = "w_locked"]
  /\ arg' = [arg EXCEPT ![c] = path]
  /\ pre' = [pre EXCEPT ![c] = slot]
  /\ UNCHANGED <<slot, deb, res, sess, sink, nraw, stderr, fsvars>>

\* line 227: unwatch_directory is invoked and reaches state.lock()
UnwatchCall(c) ==
  /\ pc[c] = "idle"
  /\ pc' = [pc EXCEPT ![c] = "u_wait"]
  /\ UNCHANGED <<slot, lock, arg, deb, pre, res, sess, sink, nraw, stderr, fsvars>>

\* line 228: state.lock() returns the guard
UnwatchAcquire(c) ==
  /\ pc[c] = "u_wait"
  /\ lock = 0
  /\ lock' = c
  /\ pc' = [pc EXCEPT ![c] = "u_locked"]
  /\ pre' = [pre EXCEPT ![c] = slot]
  /\ UNCHANGED <<slot, arg, deb, res, sess, sink, nraw, stderr, fsvars>>

\* state.lock() of caller c returns
Acquire(c) == (\E path \in WatchArgs : WatchAcquire(c, path)) \/ UnwatchAcquire(c)

\* A step of caller c's command once it holds the guard
Body(c) ==
  \/ WatchTeardown(c) \/ WatchInvalid(c)
  \/ WatchNewDebouncer(c) \/ WatchNewDebouncerErr(c)
  \/ WatchRegister(c) \/ WatchRegisterErr(c)
  \/ WatchInstall(c) \/ WatchReturn(c)
  \/ UnwatchTeardown(c) \/ UnwatchReturn(c)

NextCalls ==
  \/ \E c \in Callers : WatchCall(c)
  \/ \E c \in Callers : UnwatchCall(c)
  \/ \E c \in Callers : Acquire(c)
  \/ \E c \in Callers : Body(c)
  \/ \E i \in 1..MaxSessions, f \in AllFiles : RawEvent(i, f)
  \/ \E i \in 1..MaxSessions, S \in SUBSET AllFiles : Tick(i, S)
  \/ \E i \in 1..MaxSessions : Emit(i)
  \/ \E i \in 1..MaxSessions : CallbackErr(i)

\* Fair scheduling of the callers: a command that holds the guard goes on
\* to its next step, and a caller blocked in state.lock() gets the lock if
\* it is free again and again. Nothing is assumed of the debouncer threads.
CallFairness ==
  \A c \in Callers : WF_vars(Body(c)) /\ SF_vars(Acquire(c))

FairCalls == Init /\ [][NextCalls]_vars /\ CallFairness

\* ------------------------------------------------- strings and ordering

\* A string is a sequence of one-character strings.
UpperCase == <<"A", "B", "C", "D", "E", "F", "G", "H", "I", "J", "K", "L", "M",
               "N", "O", "P", "Q", "R", "S", "T", "U", "V", "W", "X", "Y", "Z">>
LowerCase == <<"a", "b", "c", "d", "e", "f", "g", "h", "i", "j", "k", "l", "m",
               "n", "o", "p", "q", "r", "s", "t", "u", "v", "w", "x", "y", "z">>

IsUpper(ch) == \E i \in DOMAIN UpperCase : UpperCase[i] = ch

\* The byte of a character: '.' is 46, '/' 47, 'A' 65, 'a' 97.
Byte(ch) ==
  IF ch = "." THEN 46
  ELSE IF ch = "/" THEN 47
  ELSE IF IsUpper(ch) THEN 64 + (CHOOSE i \in DOMAIN UpperCase : UpperCase[i] = ch)
  ELSE 96 + (CHOOSE i \in DOMAIN LowerCase : LowerCase[i] = ch)

\* str::to_lowercase (lines 80, 95, 129, 140)
ToLowercase(str) ==
  [i \in DOMAIN str |->
     IF IsUpper(str[i])
       THEN LowerCase[CHOOSE k \in DOMAIN UpperCase : UpperCase[k] = str[i]]
       ELSE str[i]]

\* Ord for String, as cmp of lines 95 and 140 uses it: byte-wise
\* lexicographic, a proper prefix being less.
StrCmp(a, b) ==
  LET n == IF Len(a) < Len(b) THEN Len(a) ELSE Len(b)
      diff == {i \in 1..n : a[i] # b[i]}
  IN IF diff = {}
       THEN (IF Len(a) < Len(b) THEN "Less"
             ELSE IF Len(a) > Len(b) THEN "Greater" ELSE "Equal")
       ELSE LET i == CHOOSE k \in diff : \A m \in diff : k <= m
            IN IF Byte(a[i]) < Byte(b[i]) THEN "Less" ELSE "Greater"

\* str::starts_with('.') (lines 74, 125)
StartsWithDot(name) == Len(name) > 0 /\ name[1] = "."

\* str::ends_with(".md") (lines 80, 129)
EndsWithMd(name) ==
  Len(name) >= 3 /\ SubSeq(name, Len(name) - 2, Len(name)) = <<".", "m", "d">>

\* ------------------------------------------------------- the file system

\* The listed directory, /notes, and what may lie under it: each entry is
\* the names from the directory down to it, and whether it is a directory.
RootName == <<"n", "o", "t", "e", "s">>

Universe == <<
  [segs |-> << <<".", "g", "i", "t">> >>, dir |-> TRUE],
  [segs |-> << <<".", "g", "i", "t">>, <<"n", "o", "t", "e", "s", ".", "m", "d">> >>, dir |-> FALSE],
  [segs |-> << <<"N", "o", "t", "e", "s">> >>, dir |-> TRUE],
  [segs |-> << <<"N", "o", "t", "e", "s">>, <<"c", ".", "M", "d">> >>, dir |-> FALSE],
  [segs |-> << <<"R", "E", "A", "D", "M", "E", ".", "m", "d">> >>, dir |-> FALSE],
  [segs |-> << <<"a", ".", "m", "d">> >>, dir |-> FALSE],
  [segs |-> << <<"B", ".", "M", "D">> >>, dir |-> FALSE],
  [segs |-> << <<"b", ".", "m", "d">> >>, dir |-> FALSE],
  [segs |-> << <<".", "h", ".", "m", "d">> >>, dir |-> FALSE],
  [segs |-> << <<"x", ".", "t", "x", "t">> >>, dir |-> FALSE],
  [segs |-> << <<"d", ".", "m", "d">> >>, dir |-> TRUE] >>

Root == [segs |-> <<>>, dir |-> TRUE]

Parent(segs) == SubSeq(segs, 1, Len(segs) - 1)

\* The trees: every entry but the top ones lies in a directory of the tree.
Trees ==
  {t \in SUBSET DOMAIN Universe :
     \A i \in t : Len(Universe[i].segs) > 1 =>
       \E j \in t : Universe[j].dir /\ Universe[j].segs = Parent(Universe[i].segs)}

\* The orders in which fs::read_dir may yield the children of a directory.
ReadOrders == {"fwd", "rev"}

\* DirEntry::file_name / walkdir's DirEntry::file_name (lines 71, 122): the
\* last component; for the root of a walk, the last component of the root.
FileName(e) == IF e.segs = <<>> THEN RootName ELSE e.segs[Len(e.segs)]

\* DirEntry::path (lines 78, 121) as a string: the root joined with the names.
RECURSIVE Joined(_)
Joined(segs) ==
  IF segs = <<>> THEN <<>> ELSE <<"/">> \o Head(segs) \o Joined(Tail(segs))

PathStr(e) == <<"/">> \o RootName \o Joined(e.segs)

\* fs::read_dir of the directory at segs (line 67), in the order ord.
ReadDir(t, ord, segs) ==
  LET n == Len(Universe)
      idx == [k \in 1..n |-> IF ord = "fwd" THEN k ELSE n + 1 - k]
      isChild(k) == /\ k \in t
                    /\ Len(Universe[k].segs) = Len(segs) + 1
                    /\ Parent(Universe[k].segs) = segs
      kept == SelectSeq(idx, isChild)
  IN [k \in DOMAIN kept |-> Universe[kept[k]]]

\* FileEntry (lines 11-16)
FileEntry(name, path, is_dir, is_markdown) ==
  [name |-> name, path |-> path, is_dir |-> is_dir, is_markdown |-> is_markdown]

\* ------------------------------------------------------------- list_dir

\* DirEntries without the test of lines 74-76: hidden children are listed.
RECURSIVE DirEntries_KeepsHidden(_)
DirEntries_KeepsHidden(children) ==
  IF children = <<>> THEN <<>>
  ELSE LET e == Head(children)
           file_name == FileName(e)
           is_dir == e.dir
           is_markdown == ~is_dir /\ EndsWithMd(ToLowercase(file_name))
       IN <<FileEntry(file_name, PathStr(e), is_dir, is_markdown)>>
          \o DirEntries_KeepsHidden(Tail(children))

\* lines 69-88: one FileEntry per child whose name does not start with '.'
RECURSIVE DirEntries(_)
DirEntries(children) ==
  IF children = <<>> THEN <<>>
  ELSE LET e == Head(children)
           file_name == FileName(e)
           is_dir == e.dir
           is_markdown == ~is_dir /\ EndsWithMd(ToLowercase(file_name))
       IN IF StartsWithDot(file_name)
            THEN DirEntries(Tail(children))
            ELSE <<FileEntry(file_name, PathStr(e), is_dir, is_markdown)>>
                 \o DirEntries(Tail(children))

\* DirOrder comparing the names as they are, not lower-cased.
DirOrder_CaseSensitive(a, b) ==
  IF a.is_dir /\ ~b.is_dir THEN "Less"
  ELSE IF ~a.is_dir /\ b.is_dir THEN "Greater"
  ELSE StrCmp(a.name, b.name)

\* lines 91-97: the comparator of entries.sort_by
DirOrder(a, b) ==
  IF a.is_dir /\ ~b.is_dir THEN "Less"
  ELSE IF ~a.is_dir /\ b.is_dir THEN "Greater"
  ELSE StrCmp(ToLowercase(a.name), ToLowercase(b.name))

\* slice::sort_by is stable: e goes before the first entry it is less than.
InsertDir(sorted, e) ==
  LET after == {k \in DOMAIN sorted : DirOrder(e, sorted[k]) = "Less"}
      at == IF after = {} THEN Len(sorted) + 1
            ELSE CHOOSE k \in after : \A m \in after : k <= m
  IN SubSeq(sorted, 1, at - 1) \o <<e>> \o SubSeq(sorted, at, Len(sorted))

RECURSIVE SortDir(_)
SortDir(entries) ==
  IF entries = <<>> THEN <<>>
  ELSE InsertDir(SortDir(SubSeq(entries, 1, Len(entries) - 1)), entries[Len(entries)])

\* lines 54-103, for a path that is a directory
list_dir(t, ord) == SortDir(DirEntries(ReadDir(t, ord, <<>>)))

ListDir ==
  /\ ~dir_out.done
  /\ dir_out' = [done |-> TRUE, entries |-> list_dir(tree, rd)]
  /\ UNCHANGED <<wvars, tree, rd, md_out, iovars>>

\* -------------------------------------------------------- list_md_files

\* WalkDir::new(root).follow_links(true).into_iter() (lines 116-119): the
\* root, then each child followed by what lies under it. Nothing is pruned:
\* the iterator is not told to skip a directory.
RECURSIVE Walk(_, _, _), WalkAll(_, _, _)
Walk(t, ord, e) ==
  <<e>> \o (IF e.dir THEN WalkAll(t, ord, ReadDir(t, ord, e.segs)) ELSE <<>>)
WalkAll(t, ord, es) ==
  IF es = <<>> THEN <<>> ELSE Walk(t, ord, Head(es)) \o WalkAll(t, ord, Tail(es))

\* lines 121-136: the loop body over the walked entries. `continue` skips
\* the entry whose own name starts with '.', not the entries under it.
RECURSIVE MdEntries(_)
MdEntries(walked) ==
  IF walked = <<>> THEN <<>>
  ELSE LET e == Head(walked)
           file_name == FileName(e)
       IN IF StartsWithDot(file_name)
            THEN MdEntries(Tail(walked))
            ELSE IF ~e.dir /\ EndsWithMd(ToLowercase(file_name))
              THEN <<FileEntry(file_name, PathStr(e), FALSE, TRUE)>>
                   \o MdEntries(Tail(walked))
              ELSE MdEntries(Tail(walked))

\* line 140: the comparator of entries.sort_by
PathOrder(a, b) == StrCmp(ToLowercase(a.path), ToLowercase(b.path))

InsertPath(sorted, e) ==
  LET after == {k \in DOMAIN sorted : PathOrder(e, sorted[k]) = "Less"}
      at == IF after = {} THEN Len(sorted) + 1
            ELSE CHOOSE k \in after : \A m \in after : k <= m
  IN SubSeq(sorted, 1, at - 1) \o <<e>> \o SubSeq(sorted, at, Len(sorted))

RECURSIVE SortPath(_)
SortPath(entries) ==
  IF entries = <<>> THEN <<>>
  ELSE InsertPath(SortPath(SubSeq(entries, 1, Len(entries) - 1)), entries[Len(entries)])

\* lines 107-143, for a root that exists
list_md_files(t, ord) == SortPath(MdEntries(Walk(t, ord, Root)))

ListMdFiles ==
  /\ ~md_out.done
  /\ md_out' = [done |-> TRUE, entries |-> list_md_files(tree, rd)]
  /\ UNCHANGED <<wvars, tree, rd, dir_out, iovars>>

\* The listing commands on every tree, in every read_dir order.
InitFs ==
  /\ WatchInit
  /\ tree \in Trees /\ rd \in ReadOrders
  /\ dir_out = NotListed /\ md_out = NotListed
  /\ IoIdle

NextFs == ListDir \/ ListMdFiles

SpecFs == InitFs /\ [][NextFs]_vars

\* ------------------------------------------------------ the text commands

\* A String is a sequence of code points; a file holds bytes. The contents
\* write_text_file is called with:  "",  "a",  "éa".
Texts == { <<>>, <<97>>, <<233, 97>> }

\* The UTF-8 encoding of a code point below U+10000.
Utf8(cp) ==
  IF cp < 128 THEN <<cp>>
  ELSE IF cp < 2048 THEN << 192 + (cp \div 64), 128 + (cp % 64) >>
  ELSE << 224 + (cp \div 4096), 128 + ((cp \div 64) % 64), 128 + (cp % 64) >>

\* String as bytes (fs::write takes content as AsRef<[u8]>, line 49)
RECURSIVE Encode(_)
Encode(text) ==
  IF text = <<>> THEN <<>> ELSE Utf8(Head(text)) \o Encode(Tail(text))

\* The UTF-8 validation and decoding of fs::read_to_string (line 39), for
\* sequences of one and two bytes; any other byte is rejected.
RECURSIVE Decode(_)
Decode(bytes) ==
  IF bytes = <<>> THEN [ok |-> TRUE, text |-> <<>>]
  ELSE LET b == Head(bytes)
           one == b < 128
           two == /\ b >= 194 /\ b <= 223
                  /\ Len(bytes) >= 2 /\ bytes[2] >= 128 /\ bytes[2] <= 191
           cp == IF one THEN b ELSE (b - 192) * 64 + (bytes[2] - 128)
           rest == Decode(SubSeq(bytes, IF one THEN 2 ELSE 3, Len(bytes)))
       IN IF (one \/ two) /\ rest.ok
            THEN [ok |-> TRUE, text |-> <<cp>> \o rest.text]
            ELSE [ok |-> FALSE, text |-> <<>>]

\* What a file may hold before any command ran: "hi", or a byte that is
\* not UTF-8.
InitBytes == { <<104, 105>>, <<255>> }

\* The disks the commands may find: a node that is there lies in a directory.
Disks ==
  {d \in [IoNodes -> {Absent, Dir} \cup {File(b) : b \in InitBytes}] :
     \A n \in IoNodes :
       (Len(n) > 1 /\ d[n].kind # "absent") => d[Parent(n)].kind = "dir"}

\* p and the directories above it, up to the root (which is a directory).
UpTo(p) == {SubSeq(p, 1, k) : k \in 1..Len(p)}

\* fs::create_dir_all (lines 46-48): the missing directories of UpTo(p) are
\* made; it fails when one of them is there as a file.
create_dir_all(d, p) ==
  IF \E n \in UpTo(p) : d[n].kind = "file"
    THEN [ok |-> FALSE, disk |-> d, made |-> {}]
    ELSE [ok |-> TRUE,
          disk |-> [n \in IoNodes |-> IF n \in UpTo(p) THEN Dir ELSE d[n]],
          made |-> {n \in UpTo(p) : d[n].kind = "absent"}]

\* fs::write opening the file to append instead of truncating it.
fs_write_Appends(d, p, bytes) ==
  IF d[p].kind = "dir"
    THEN [ok |-> FALSE, disk |-> d]
    ELSE [ok |-> TRUE, disk |-> [d EXCEPT ![p] = File(d[p].bytes \o bytes)]]

\* fs::write (line 49) in a directory that exists: the file is created or
\* truncated and holds the bytes; it fails when p is a directory.
fs_write(d, p, bytes) ==
  IF d[p].kind = "dir"
    THEN [ok |-> FALSE, disk |-> d]
    ELSE [ok |-> TRUE, disk |-> [d EXCEPT ![p] = File(bytes)]]

\* lines 44-50. written[p] keeps the content of the call that succeeded,
\* and the directories it made.
WriteTextFile(p, content) ==
  LET dirs == create_dir_all(disk, Parent(p))
      out == IF dirs.ok THEN fs_write(dirs.disk, p, Encode(content))
             ELSE [ok |-> FALSE, disk |-> dirs.disk]
  IN /\ disk' = out.disk
     /\ written' = IF out.ok
                     THEN [written EXCEPT ![p] = [ok |-> TRUE, text |-> content,
                                                 made |-> dirs.made]]
                     ELSE written
     /\ UNCHANGED <<wvars, lsvars, rd_out>>

\* lines 38-40: fs::read_to_string. rd_out.wrote is what written[p] was when
\* the file was read.
ReadTextFile(p) ==
  LET n == disk[p]
      r == IF n.kind = "file" THEN Decode(n.bytes) ELSE [ok |-> FALSE, text |-> <<>>]
  IN /\ rd_out' = [path |-> p, res |-> IF r.ok THEN "ok" ELSE "err",
                   text |-> r.text, wrote |-> written[p]]
     /\ UNCHANGED <<wvars, lsvars, disk, written>>

\* The text commands on every disk.
InitIo ==
  /\ WatchInit
  /\ tree = {} /\ rd = "fwd"
  /\ dir_out = NotListed /\ md_out = NotListed
  /\ disk \in Disks
  /\ written = NotWritten
  /\ rd_out = NotRead

NextIo ==
  \/ \E p \in IoPaths, content \in Texts : WriteTextFile(p, content)
  \/ \E p \in IoPaths : ReadTextFile(p)

SpecIo == InitIo /\ [][NextIo]_vars

\* ------------------------------------------------------------- claims

\* A session that can still push notifications: its OS watch was registered
\* and its handle is owned, or its callback is still running.
Live(i) == sess[i].registered /\ (~sess[i].stopped \/ sess[i].batch # <<>>)

\* The emits of debouncer i for path f out of its batch number w.
Emits(i, w, f) ==
  {k \in DOMAIN sink : sink[k].sid = i /\ sink[k].win = w /\ sink[k].path = PathText(f)}

\* The events for path f still waiting in the callback of debouncer i.
InBatch(i, f) == {k \in DOMAIN sess[i].batch : sess[i].batch[k].path = f}

\* C1: a watch_directory that fails with the invalid-path error leaves the
\* slot as it found it, and the session that was active is still active.
C1_InvalidPathLeavesSlot ==
  \A c \in Callers :
    (pc[c] = "w_ret" /\ res[c] = "invalid") =>
      /\ slot = pre[c]
      /\ pre[c].watcher # NoWatcher => ~sess[pre[c].watcher].stopped

\* C1 (amended): a watch_directory fails with the invalid-path error exactly
\* when its path is missing or no directory; it creates no debouncer and
\* leaves the slot empty: the session that was active is torn down, and an
\* empty slot is left as it was.
C1_InvalidPathLeavesIdle ==
  \A c \in Callers :
    /\ pc[c] = "w_ret" =>
         (res[c] = "invalid" <=> ~(PathExists(arg[c]) /\ PathIsDir(arg[c])))
    /\ (pc[c] = "w_ret" /\ res[c] = "invalid") =>
         /\ slot = IdleSlot
         /\ deb[c] = NoWatcher
         /\ pre[c] = IdleSlot => slot = pre[c]
         /\ pre[c].watcher # NoWatcher => sess[pre[c].watcher].stopped

\* An invalid path handed to watch_directory while a session is active.
C1_Witness ==
  \E c \in Callers :
    /\ pc[c] = "w_ret" /\ res[c] = "invalid"
    /\ pre[c].watcher # NoWatcher /\ pre[c].watched_path = "/d1"
    /\ arg[c] = "/d1/a.md"

\* This step is an emit of debouncer i.
Emitting(i) == Len(sink') > Len(sink) /\ sess'[i].batch # sess[i].batch

\* C2: once a watch_directory that replaced a session has returned, no
\* notification of the replaced session is emitted.
C2_NoEmitAfterRewatch ==
  [][\A i \in DOMAIN sess :
       Emitting(i) => ~(sess[i].ret /\ sess[i].by = "watch")]_vars

\* C3: once unwatch_directory has returned, no notification of the session
\* it tore down is emitted: what that session had not delivered is discarded.
C3_NoEmitAfterUnwatch ==
  [][\A i \in DOMAIN sess :
       Emitting(i) => ~(sess[i].ret /\ sess[i].by = "unwatch")]_vars

\* C4: at most one session able to push notifications exists at any time.
C4_AtMostOneSession ==
  Cardinality({i \in DOMAIN sess : Live(i)}) <= 1

\* C5: a watch_directory that fails after validation (new_debouncer or the
\* OS registration) ends with the slot empty, and the debouncer of the
\* failed attempt is dropped, holds no event and never emitted.
C5_WatcherErrorLeavesIdle ==
  /\ \A c \in Callers :
       (pc[c] = "w_ret" /\ res[c] = "watcher_err") =>
         /\ slot = IdleSlot
         /\ deb[c] # NoWatcher => sess[deb[c]].stopped /\ sess[deb[c]].by = "failed"
  /\ \A i \in DOMAIN sess :
       sess[i].by = "failed" =>
         /\ sess[i].stopped /\ ~sess[i].registered
         /\ sess[i].batch = <<>> /\ sess[i].buf = NoEvents
         /\ \A k \in DOMAIN sink : sink[k].sid # i

\* A registration failure replacing an active session.
C5_Witness ==
  \E c \in Callers :
    /\ pc[c] = "w_ret" /\ res[c] = "watcher_err"
    /\ deb[c] # NoWatcher /\ pre[c].watcher # NoWatcher

\* C6: unwatch_directory returns Ok and leaves the slot empty from any
\* state; from the empty slot it changes nothing and drops nothing.
C6_UnwatchIdempotent ==
  \A c \in Callers :
    pc[c] = "u_ret" =>
      /\ res[c] = "ok"
      /\ slot = IdleSlot
      /\ pre[c] = IdleSlot =>
           /\ slot = pre[c]
           /\ \A i \in DOMAIN sess : sess[i].dropper # c
      /\ pre[c].watcher # NoWatcher =>
           /\ sess[pre[c].watcher].stopped
           /\ sess[pre[c].watcher].dropper = c

\* A second unwatch_directory right after one that tore a session down.
C6_Witness ==
  \E c \in Callers :
    /\ pc[c] = "u_ret" /\ pre[c] = IdleSlot
    /\ \E i \in DOMAIN sess : sess[i].by = "unwatch" /\ sess[i].ret
    /\ \A i \in DOMAIN sess : sess[i].stopped

\* The slot a command leaves when it runs alone from the slot it found.
SeqEffect(c) ==
  IF pc[c] = "w_ret" /\ res[c] = "ok"
    THEN [watcher |-> deb[c], watched_path |-> arg[c]]
    ELSE IdleSlot

\* C7: the commands are serialized by the lock: at most one is between its
\* lock() and its return, it holds the lock, nobody else touched the slot
\* since it took the lock, and it leaves the slot its sequential run leaves.
C7_SwapAtomic ==
  /\ Cardinality({c \in Callers : pc[c] # "idle"}) <= 1
  /\ \A c \in Callers :
       /\ pc[c] # "idle" => lock = c
       /\ pc[c] \in {"w_locked", "u_locked"} => slot = pre[c]
       /\ pc[c] \in {"w_cleared", "w_created", "w_registered"} => slot = IdleSlot
       /\ pc[c] \in {"w_ret", "u_ret"} => slot = SeqEffect(c)
  /\ lock = 0 => \A c \in Callers : pc[c] = "idle"

\* A watch_directory completing the swap of a session another call installed.
C7_Witness ==
  \E c \in Callers :
    /\ pc[c] = "w_ret" /\ res[c] = "ok"
    /\ pre[c].watcher # NoWatcher
    /\ sess[pre[c].watcher].stopped
    /\ slot.watcher = deb[c]

\* C8: the raw events of one path within one debounce window give exactly
\* one notification for that path, tagged "change".
C8_OneNotificationPerWindow ==
  /\ \A j, k \in DOMAIN sink :
       (sink[j].sid = sink[k].sid /\ sink[j].win = sink[k].win
          /\ sink[j].path = sink[k].path) => j = k
  /\ \A i \in DOMAIN sess : \A f \in AllFiles :
       Cardinality(InBatch(i, f)) + Cardinality(Emits(i, sess[i].win, f))
         = IF f \in sess[i].cur THEN 1 ELSE 0
  /\ \A k \in DOMAIN sink : sink[k].kind = "change"

\* Two raw events of /d1/a.md, nothing of them buffered, in a batch or
\* discarded by a teardown: they were delivered as one notification.
C8_Witness ==
  /\ nraw = 2
  /\ \A i \in DOMAIN sess :
       ~sess[i].stopped /\ sess[i].batch = <<>> /\ sess[i].buf = NoEvents
  /\ Len(sink) = 1 /\ stderr = 0
  /\ sink[1].path = PathText("/d1/a.md") /\ sink[1].kind = "change"

\* The entries of the tree that are regular files named *.md, whatever the
\* case, with no name starting with '.' from the directory down to them.
VisibleMd(t) ==
  {i \in t : /\ ~Universe[i].dir
             /\ EndsWithMd(ToLowercase(FileName(Universe[i])))
             /\ \A k \in DOMAIN Universe[i].segs : ~StartsWithDot(Universe[i].segs[k])}

\* C9: list_md_files returns exactly the visible *.md files of the subtree,
\* each once, in ascending order of the lower-cased path.
C9_ListMdFilesExact ==
  md_out.done =>
    LET out == md_out.entries IN
      /\ {out[k].path : k \in DOMAIN out} = {PathStr(Universe[i]) : i \in VisibleMd(tree)}
      /\ Len(out) = Cardinality(VisibleMd(tree))
      /\ \A j, k \in DOMAIN out :
           j < k => StrCmp(ToLowercase(out[j].path), ToLowercase(out[k].path)) # "Greater"

\* C10: in list_dir's entries every directory precedes every file, and
\* within the directories and within the files the lower-cased names ascend.
C10_ListDirOrder ==
  dir_out.done =>
    LET out == dir_out.entries IN
      \A j, k \in DOMAIN out :
        j < k =>
          /\ ~(~out[j].is_dir /\ out[k].is_dir)
          /\ out[j].is_dir = out[k].is_dir =>
               StrCmp(ToLowercase(out[j].name), ToLowercase(out[k].name)) # "Greater"

\* A listing of directories and files whose order differs from the order
\* read_dir gave and from the order of the names as they are.
C10_Witness ==
  /\ dir_out.done
  /\ tree = {3, 5, 6, 7, 11}
  /\ rd = "fwd"
  /\ Len(dir_out.entries) = 5
  /\ dir_out.entries[1].is_dir /\ dir_out.entries[2].is_dir
  /\ dir_out.entries[3].name = <<"a", ".", "m", "d">>
  /\ dir_out.entries[5].name = <<"R", "E", "A", "D", "M", "E", ".", "m", "d">>

\* The immediate children of the listed directory in tree t.
Children(t) == {i \in t : Len(Universe[i].segs) = 1}

\* C11: list_dir returns one entry for each immediate child whose name does
\* not start with '.', carrying the child's name, path and kind, and no
\* entry for a child whose name starts with '.' or for anything deeper.
C11_ListDirSkipsHidden ==
  dir_out.done =>
    LET out == dir_out.entries
        shown == {i \in Children(tree) : ~StartsWithDot(FileName(Universe[i]))}
    IN /\ \A i \in shown :
            Cardinality({k \in DOMAIN out :
                           /\ out[k].name = FileName(Universe[i])
                           /\ out[k].path = PathStr(Universe[i])
                           /\ out[k].is_dir = Universe[i].dir}) = 1
       /\ Len(out) = Cardinality(shown)
       /\ \A k \in DOMAIN out : ~StartsWithDot(out[k].name)

\* /notes holding .git (directory), README.md (file) and Notes (directory)
\* lists as exactly [Notes, README.md].
C11_Witness ==
  /\ dir_out.done
  /\ tree = {1, 3, 5}
  /\ Len(dir_out.entries) = 2
  /\ dir_out.entries[1].name = <<"N", "o", "t", "e", "s">>
  /\ dir_out.entries[1].is_dir
  /\ dir_out.entries[2].name = <<"R", "E", "A", "D", "M", "E", ".", "m", "d">>
  /\ ~dir_out.entries[2].is_dir

\* C12: read_text_file(P) after a successful write_text_file(P, C), with no
\* other write to P in between, succeeds and returns exactly C.
C12_WriteThenRead ==
  rd_out.wrote.ok =>
    /\ rd_out.res = "ok"
    /\ rd_out.text = rd_out.wrote.text

\* "éa" read back from /n/sub/b.md, whose two directories the write made.
C12_Witness ==
  /\ rd_out.res = "ok"
  /\ rd_out.path = <<"n", "sub", "b.md">>
  /\ rd_out.wrote.ok
  /\ rd_out.wrote.made = { <<"n">>, <<"n", "sub">> }
  /\ rd_out.text = <<233, 97>>
  /\ disk[rd_out.path].bytes = <<195, 169, 97>>

\* A step of the closure of lines 192-214 printing a watcher-level error.
PrintsError == stderr' # stderr

\* Session i, which watches its directory, ends in this step: its debouncer
\* is told to stop.
Ends(i) == sess[i].registered /\ ~sess[i].stopped /\ sess'[i].stopped

\* C13: a watcher-level error given to the callback is printed and nothing
\* else: the slot, every session and every caller's pending Result stay as
\* they are. A session ends only in a step of a watch_directory or
\* unwatch_directory call, never in a step of a callback.
C13_ErrorKeepsSession ==
  [][ /\ PrintsError =>
           /\ slot' = slot /\ sess' = sess
           /\ pc' = pc /\ res' = res /\ sink' = sink
      /\ \A i \in DOMAIN sess :
           Ends(i) => /\ sess'[i].by \in {"watch", "unwatch"}
                      /\ \E c \in Callers : pc'[c] # pc[c] ]_vars

\* The only session there was printed an error and is in the slot, handed
\* its first batch: as no error is printed during a batch, the batch was
\* handed over after the error.
C13_Witness ==
  /\ lock = 0
  /\ stderr = 1
  /\ Len(sess) = 1 /\ slot.watcher = 1
  /\ ~sess[1].stopped
  /\ sess[1].win = 1 /\ sess[1].batch # <<>>

\* The paths of a sequence of notifications, and the paths a sequence of
\* events or of files gives its notifications, in its order.
Paths(es) == [k \in DOMAIN es |-> es[k].path]
EventPaths(es) == [k \in DOMAIN es |-> PathText(es[k].path)]
FilePaths(fs) == [k \in DOMAIN fs |-> PathText(fs[k])]

\* The notifications session i pushed out of its batch number w, in the
\* order they were pushed.
Pushed(i, w) ==
  LET mine(e) == e.sid = i /\ e.win = w IN SelectSeq(sink, mine)

\* C14: the notifications a session pushed are the batches it was handed,
\* in the order they were handed and each in the order the debouncer listed
\* its events: what was pushed of the batch in progress, followed by what
\* the loop has still to push, is that batch; batches do not interleave;
\* and a push only appends, whatever the earlier emits returned.
C14_PushedInBatchOrder ==
  /\ [](\A i \in DOMAIN sess :
          /\ Paths(Pushed(i, sess[i].win)) \o EventPaths(sess[i].batch)
               = FilePaths(sess[i].handed)
          /\ \A j, k \in DOMAIN sink :
               (j < k /\ sink[j].sid = i /\ sink[k].sid = i)
                 => sink[j].win <= sink[k].win)
  /\ [][Len(sink') >= Len(sink) /\ SubSeq(sink', 1, Len(sink)) = sink]_vars

\* A batch of two events listed as b.md, a.md was pushed whole, in that order.
C14_Witness ==
  \E i \in DOMAIN sess :
    /\ sess[i].handed = <<"/d1/b.md", "/d1/a.md">>
    /\ sess[i].batch = <<>>
    /\ Paths(sink) = FilePaths(sess[i].handed)

\* The notification a step pushes.
NewPush == sink'[Len(sink')]

\* The ASCII part of a sequence of bytes or of code points.
Ascii(s) == LET low(x) == x < 128 IN SelectSeq(s, low)

\* C15 as stated: every notification pushed carries the kind "change" and
\* the path of its debounced event unchanged, so that the bytes of the text
\* pushed are the bytes of the event's path.
C15_ChangeTagSamePath ==
  [][\A i \in DOMAIN sess :
       Emitting(i) =>
         /\ NewPush.kind = "change"
         /\ Encode(NewPush.path) = OsPath(Head(sess[i].batch).path)]_vars

\* C15, amended: every notification pushed carries the kind "change"
\* whatever the kind of the debounced event. It carries the event's path
\* unchanged when the path is UTF-8; when it is not, the text pushed has
\* U+FFFD where the path has the offending bytes and is the path elsewhere.
C15_ChangeTagLossyPath ==
  [][\A i \in DOMAIN sess :
       Emitting(i) =>
         LET raw == OsPath(Head(sess[i].batch).path) IN
           /\ NewPush.kind = "change"
           /\ Decode(raw).ok => Encode(NewPush.path) = raw
           /\ ~Decode(raw).ok =>
                /\ \E k \in DOMAIN NewPush.path : NewPush.path[k] = 65533
                /\ Ascii(NewPush.path) = Ascii(raw)]_vars

\* Pushed: the change of /d1/a.md with its path, and the change of the file
\* of /d2 whose name is not UTF-8, with U+FFFD in its place.
C15_Witness ==
  \E j, k \in DOMAIN sink :
    /\ sink[j].kind = "change" /\ sink[k].kind = "change"
    /\ sink[j].path = <<47, 100, 49, 47, 97, 46, 109, 100>>
    /\ sink[k].path = <<47, 100, 50, 47, 65533, 46, 109, 100>>

\* C18: whenever the lock is free, the slot holds a watcher if and only if
\* it records a path, and then the path is the argument of the most recent
\* watch_directory call that succeeded: the call that created the watcher
\* in the slot, every debouncer created after it having failed to register.
C18_SlotFieldsAgree ==
  lock = 0 =>
    /\ slot.watcher = NoWatcher <=> slot.watched_path = None
    /\ slot.watcher # NoWatcher =>
         /\ slot.watcher \in DOMAIN sess
         /\ slot.watched_path = sess[slot.watcher].root
         /\ sess[slot.watcher].registered
         /\ \A j \in DOMAIN sess : j > slot.watcher => sess[j].by = "failed"

\* The lock is free and the slot watches /d2, the argument of the second
\* call that succeeded; the first one watched /d1.
C18_Witness ==
  /\ lock = 0
  /\ Len(sess) = 2
  /\ sess[1].root = "/d1" /\ sess[1].by = "watch" /\ sess[1].ret
  /\ slot = [watcher |-> 2, watched_path |-> "/d2"]

\* The notifications session i pushed for file f.
PushedFor(i, f) ==
  {k \in DOMAIN sink : sink[k].sid = i /\ sink[k].path = PathText(f)}

\* C17: when a raw event of file f under the root of session i is reported
\* to its debouncer, then a notification for f is pushed later on, or the
\* session is ended by a watch_directory or unwatch_directory call.
C17_ReportedIsPushed ==
  \A i \in 1..MaxSessions : \A f \in AllFiles : \A n \in 0..MaxRaw :
    (/\ i \in DOMAIN sess
     /\ sess[i].buf[f] > 0
     /\ Cardinality(PushedFor(i, f)) = n)
      ~> (/\ i \in DOMAIN sess
          /\ \/ sess[i].stopped
             \/ Cardinality(PushedFor(i, f)) > n)

\* The session in the slot was reported a change of /d1/b.md and pushed it;
\* nothing is left to deliver and no call is in progress.
C17_Witness ==
  /\ lock = 0
  /\ slot.watcher # NoWatcher
  /\ ~sess[slot.watcher].stopped
  /\ sess[slot.watcher].buf = NoEvents /\ sess[slot.watcher].batch = <<>>
  /\ sess[slot.watcher].cur = {"/d1/b.md"}
  /\ PushedFor(slot.watcher, "/d1/b.md") # {}

====
